---- MODULE Spec2Model ----
(***************************************************************************)
(* Model of plex-recommendations-ai (src/main.py): the run() loop, the     *)
(* collection publisher create_collection, the watchlist publisher         *)
(* add_to_watchlist and the parsing of the completion text.                *)
(*                                                                         *)
(* Strings are sequences of one-character strings, so that split() and     *)
(* strip() are computed as Python computes them.                            *)
(***************************************************************************)
EXTENDS Integers, Sequences, FiniteSets, TLC

\* ------------------------------------------------------------------------
\* Bounds of the model
\* ------------------------------------------------------------------------
\* longest raw completion text enumerated by SpecParse
MaxLen == 7
\* number of passes of the while True loop of run() that are explored
MaxPasses == 1
\* number of external calls that may raise inside the publishing phase
MaxFaults == 1
\* number of times SpecRepublish repeats the publishing phase
MaxRuns == 2

\* ------------------------------------------------------------------------
\* Python string primitives
\* ------------------------------------------------------------------------
\* characters of the raw completion texts enumerated by SpecParse
Alphabet == {"A", " ", ",", "+"}

\* str.strip() with no argument removes leading and trailing whitespace
Whitespace == {" "}

RECURSIVE LStrip(_)
LStrip(s) ==
    IF s = <<>> THEN s
    ELSE IF Head(s) \in Whitespace THEN LStrip(Tail(s)) ELSE s

RECURSIVE RStrip(_)
RStrip(s) ==
    IF s = <<>> THEN s
    ELSE IF s[Len(s)] \in Whitespace THEN RStrip(SubSeq(s, 1, Len(s) - 1)) ELSE s

Strip(s) == RStrip(LStrip(s))

\* index of the first occurrence of sep in s at or after position i, 0 if none
RECURSIVE Find(_, _, _)
Find(s, sep, i) ==
    IF i + Len(sep) - 1 > Len(s) THEN 0
    ELSE IF SubSeq(s, i, i + Len(sep) - 1) = sep THEN i
    ELSE Find(s, sep, i + 1)

\* str.split(sep): every non-overlapping occurrence of sep, left to right
RECURSIVE Split(_, _)
Split(s, sep) ==
    LET i == Find(s, sep, 1) IN
    IF i = 0 THEN <<s>>
    ELSE <<SubSeq(s, 1, i - 1)>> \o Split(SubSeq(s, i + Len(sep), Len(s)), sep)

\* [f(x) for x in xs if x.strip()] with f = strip
RECURSIVE StripNonBlank(_)
StripNonBlank(xs) ==
    IF xs = <<>> THEN <<>>
    ELSE IF Strip(Head(xs)) # <<>> THEN <<Strip(Head(xs))>> \o StripNonBlank(Tail(xs))
    ELSE StripNonBlank(Tail(xs))

Separator == <<"+", "+", "+">>
Comma == <<",">>

\* ai_result_split = ai_result.split("+++")
AiResultSplit(ai_result) == Split(ai_result, Separator)

\* recommendations = [t.strip() for t in ai_result_split[0].split(",") if t.strip()]
ParseRecommendations(ai_result) ==
    StripNonBlank(Split(AiResultSplit(ai_result)[1], Comma))

\* description = ai_result_split[1].strip() if len(ai_result_split) > 1 else ""
ParseDescription(ai_result) ==
    IF Len(AiResultSplit(ai_result)) > 1 THEN Strip(AiResultSplit(ai_result)[2]) ELSE <<>>

\* ------------------------------------------------------------------------
\* Configuration and the collaborators' data
\* ------------------------------------------------------------------------
target_username == "safetyp1"

\* plex.systemAccounts(): the first account is the owner, skipped by run()
all_accounts == <<"owner", "safetyp1", "bob">>

\* userInputs.library_names and the type of each library section
library_names == <<"Movies", "Shows">>
LibraryType(library_name) == IF library_name = "Shows" THEN "show" ELSE "movie"

\* mediatype = "show" if library.type == "show" else "movie"
MediaType(library_name) == IF LibraryType(library_name) = "show" THEN "show" ELSE "movie"

collection_title == "Recs"
minimum_amount == 1

\* plex.search(title, mediatype, limit=3): ranked results, each with a class
Search(title, mediatype) ==
    IF title = <<"A">> THEN
        IF mediatype = "show" THEN <<[key |-> 1, cls |-> "Show"]>>
        ELSE <<[key |-> 11, cls |-> "Movie"]>>
    ELSE IF title = <<"B">> THEN
        IF mediatype = "show"
        THEN <<[key |-> 2, cls |-> "Episode"], [key |-> 3, cls |-> "Show"]>>
        ELSE <<[key |-> 12, cls |-> "Movie"], [key |-> 13, cls |-> "Movie"]>>
    ELSE IF title = <<"C">> THEN
        IF mediatype = "show" THEN <<[key |-> 4, cls |-> "Season"]>> ELSE <<>>
    ELSE <<>>

\* account.search(title, mediatype): the global catalog
GlobalSearch(title, mediatype) ==
    IF title = <<"A">> THEN <<[key |-> IF mediatype = "show" THEN 1 ELSE 11]>>
    ELSE <<>>

\* raw completion texts the completion service may return
AiResponses ==
    { <<"A", ",", " ", "B", "+", "+", "+", " ", "d">>,
      <<" ", "A", " ", ",", " ", ",", "C">>,
      <<"+", "+", "+", "d">> }

\* plex.history(...) results: records with grandparentTitle and title
Histories ==
    { <<>>,
      <<[grandparentTitle |-> <<" ">>, title |-> <<"e">>]>>,
      <<[grandparentTitle |-> <<"S">>, title |-> <<"e">>],
        [grandparentTitle |-> <<"S", " ">>, title |-> <<"f">>],
        [grandparentTitle |-> <<>>, title |-> <<" ", "M">>]>> }

\* the collections the server holds when the program starts
InitialCollections ==
    [l \in {"Movies", "Shows"} |->
        IF l = "Movies"
        THEN <<[title |-> <<collection_title, "Movies">>, items |-> {18, 19},
                summary |-> <<"o">>]>>
        ELSE <<>>]

Range(f) == {f[i] : i \in DOMAIN f}

\* ------------------------------------------------------------------------
\* History Collector (run, lines 161-173)
\* ------------------------------------------------------------------------
\* grandparentTitle if present and truthy, else title if truthy, else None
ItemTitle(item) ==
    IF item.grandparentTitle # <<>> THEN item.grandparentTitle ELSE item.title

\* titles = set of the stripped, non-blank titles
HistoryTitles(history_items) ==
    {Strip(ItemTitle(history_items[i])) : i \in DOMAIN history_items} \ {<<>>}

\* the empty-history test removed: no pair is skipped
NoHistoryNeverSkips(titles) == FALSE

\* if not history_items_titles: ... continue
NoHistory(titles) == titles = {}

\* ------------------------------------------------------------------------
\* Catalog Matcher and Collection Publisher (create_collection)
\* ------------------------------------------------------------------------
RECURSIVE FirstShow(_)
FirstShow(search_results) ==
    IF search_results = <<>> THEN <<>>
    ELSE IF Head(search_results).cls = "Show" THEN <<Head(search_results)>>
    ELSE FirstShow(Tail(search_results))

\* found_item, as a list of zero or one item
FoundItem(search_results, mediatype) ==
    IF mediatype = "show" THEN FirstShow(search_results)
    ELSE IF search_results # <<>> THEN <<search_results[1]>> ELSE <<>>

\* item_list: the keys of the items found, in the order of the titles
RECURSIVE ItemList(_, _)
ItemList(items, mediatype) ==
    IF items = <<>> THEN <<>>
    ELSE LET f == FoundItem(Search(Strip(Head(items)), mediatype), mediatype) IN
         (IF f = <<>> THEN <<>> ELSE <<f[1].key>>) \o ItemList(Tail(items), mediatype)

\* the threshold test with >= in place of >
EnoughItemsInclusive(item_list) == Len(item_list) >= minimum_amount

\* if len(item_list) > userInputs.minimum_amount
EnoughItems(item_list) == Len(item_list) > minimum_amount

\* the collection's display name, set in run()
CollectionTitle(account_name, library_name) ==
    IF account_name = "safetyp1" THEN <<collection_title, library_name>>
    ELSE <<collection_title, library_name, "For", account_name>>

\* library.collection(title): index of the first collection of that title, 0 if none
RECURSIVE IndexFrom(_, _, _)
IndexFrom(cs, title, i) ==
    IF i > Len(cs) THEN 0
    ELSE IF cs[i].title = title THEN i ELSE IndexFrom(cs, title, i + 1)

\* a lookup that never finds the collection
CollectionLookupMiss(cs, title) == 0

CollectionLookup(cs, title) == IndexFrom(cs, title, 1)

\* the calls of the try block, in order; failAt is the one that raises
UpdateSteps == <<"collection", "removeItems", "addItems", "editSummary">>
StepNo(step) == CHOOSE k \in 1..4 : UpdateSteps[k] = step
StepDone(step, failAt) == failAt = "none" \/ StepNo(step) < StepNo(failAt)
StepCalled(step, failAt) == failAt = "none" \/ StepNo(step) <= StepNo(failAt)

\* the update without removeItems: the new items are appended to the old ones
UpdateCollectionAppend(cs, i, item_list, description, failAt) ==
    LET c0 == cs[i]
        c2 == IF StepDone("addItems", failAt)
              THEN [c0 EXCEPT !.items = c0.items \cup Range(item_list)] ELSE c0
        c3 == IF StepDone("editSummary", failAt)
              THEN [c2 EXCEPT !.summary = description] ELSE c2
    IN [cs EXCEPT ![i] = c3]

\* collection.removeItems(collection.items()); addItems(item_list); editSummary(description)
UpdateCollection(cs, i, item_list, description, failAt) ==
    LET c0 == cs[i]
        c1 == IF StepDone("removeItems", failAt) THEN [c0 EXCEPT !.items = {}] ELSE c0
        c2 == IF StepDone("addItems", failAt)
              THEN [c1 EXCEPT !.items = c1.items \cup Range(item_list)] ELSE c1
        c3 == IF StepDone("editSummary", failAt)
              THEN [c2 EXCEPT !.summary = description] ELSE c2
    IN [cs EXCEPT ![i] = c3]

\* plex.createCollection(title, section, items); collection.editSummary(description)
CreateCollection(cs, title, item_list, description, failAt) ==
    IF failAt = "createCollection" THEN cs
    ELSE Append(cs, [title |-> title, items |-> Range(item_list),
                     summary |-> IF failAt = "editSummary" THEN <<>> ELSE description])

\* ------------------------------------------------------------------------
\* Orchestrator (run): guards
\* ------------------------------------------------------------------------
\* the watchlist guard without the test of the account
ShouldAddToWatchlistAnyAccount(toggle, account_name) == toggle

\* if userInputs.add_to_watchlist and account_name == target_username
ShouldAddToWatchlist(toggle, account_name) == toggle /\ account_name = target_username

\* user_recommendations[library_name] = (recommendations, description)
DictSet(d, k, v) ==
    IF \E i \in DOMAIN d : d[i].key = k
    THEN [i \in DOMAIN d |-> IF d[i].key = k THEN [key |-> k, val |-> v] ELSE d[i]]
    ELSE Append(d, [key |-> k, val |-> v])

DictHas(d, k) == \E i \in DOMAIN d : d[i].key = k

\* ------------------------------------------------------------------------
\* State
\* ------------------------------------------------------------------------
VARIABLES
    pc,                       \* position of run() in its pass
    passNo,                   \* number of the current pass
    exitCause,                \* why run() returned or raised, "none" while running
    create_collections,       \* userInputs.create_collections
    add_to_watchlist,         \* userInputs.add_to_watchlist
    acctIdx,                  \* index into all_accounts of the account loop
    libIdx,                   \* index into library_names of the library loop
    user_recommendations,     \* dict library_name -> (recommendations, description)
    all_user_recommendations, \* dict account_name -> user_recommendations
    ai_result,                \* raw text of the last completion
    pubA,                     \* publishing loop: index into all_user_recommendations
    pubL,                     \* publishing loop: index into that account's dict
    colls,                    \* server: the collections of each library
    watchlist,                \* server: keys on the token owner's watchlist
    faults,                   \* number of calls that raised in the publishing phase
    units,                    \* log of the pairs handled by the enumeration of this
                              \* pass, dropped when the publishing loops start
    cc,                       \* record of the last create_collection call
    watchlist_calls,          \* accounts for which add_to_watchlist was invoked
    runNo,                    \* SpecRepublish: number of the publishing run
    firstRun                  \* SpecRepublish: collections after the first run

vars == <<pc, passNo, exitCause, create_collections, add_to_watchlist, acctIdx, libIdx,
          user_recommendations, all_user_recommendations, ai_result, pubA, pubL,
          colls, watchlist, faults, units, cc, watchlist_calls, runNo, firstRun>>

config == <<create_collections, add_to_watchlist>>
server == <<colls, watchlist>>
enumeration == <<acctIdx, libIdx, user_recommendations, all_user_recommendations,
                 ai_result>>
publishing == <<pubA, pubL>>
republish == <<runNo, firstRun>>

NoCall ==
    [called |-> FALSE, account |-> "", library |-> "", item_list |-> <<>>,
     description |-> <<>>, found |-> FALSE, calls |-> <<>>, raised |-> "none",
     before |-> InitialCollections]

Init ==
    /\ pc = "start"
    /\ passNo = 1
    /\ exitCause = "none"
    /\ create_collections \in BOOLEAN
    /\ add_to_watchlist \in BOOLEAN
    /\ acctIdx = 1
    /\ libIdx = 1
    /\ user_recommendations = <<>>
    /\ all_user_recommendations = <<>>
    /\ ai_result = <<>>
    /\ pubA = 1
    /\ pubL = 1
    /\ colls = InitialCollections
    /\ watchlist = {}
    /\ faults = 0
    /\ units = <<>>
    /\ cc = NoCall
    /\ watchlist_calls = {}
    /\ runNo = 1
    /\ firstRun = InitialCollections

\* ------------------------------------------------------------------------
\* run(): connection and account enumeration
\* ------------------------------------------------------------------------
\* plex = PlexServer(...) succeeds
Connect ==
    /\ pc = "start"
    /\ passNo <= MaxPasses
    /\ pc' = "accounts"
    /\ UNCHANGED <<passNo, exitCause, config, enumeration, units, publishing, server, faults,
                   cc, watchlist_calls, republish>>

\* PlexServer(...) raises: logged, run() returns
ConnectFails ==
    /\ pc = "start"
    /\ passNo <= MaxPasses
    /\ pc' = "returned"
    /\ exitCause' = "connect"
    /\ UNCHANGED <<passNo, config, enumeration, units, publishing, server, faults,
                   cc, watchlist_calls, republish>>

\* all_accounts = plex.systemAccounts(); all_user_recommendations = {}
\* the loop starts at all_accounts[1:]
SystemAccounts ==
    /\ pc = "accounts"
    /\ all_user_recommendations' = <<>>
    /\ user_recommendations' = <<>>
    /\ acctIdx' = 2
    /\ libIdx' = 1
    /\ pubA' = 1
    /\ pubL' = 1
    /\ pc' = IF Len(all_accounts) >= 2 /\ Len(library_names) >= 1
             THEN "library" ELSE "publish"
    /\ UNCHANGED <<passNo, exitCause, config, ai_result, units, server, faults,
                   cc, watchlist_calls, republish>>

\* plex.systemAccounts() raises: the outer except logs and returns
SystemAccountsRaises ==
    /\ pc = "accounts"
    /\ pc' = "returned"
    /\ exitCause' = "enumeration"
    /\ UNCHANGED <<passNo, config, enumeration, units, publishing, server, faults,
                   cc, watchlist_calls, republish>>

\* the end of one iteration of the library loop with user_recommendations = ur:
\* next library, or store the account's dict and move to the next account,
\* or leave the account loop for the publishing phase
EndIteration(ur) ==
    IF libIdx < Len(library_names)
    THEN /\ libIdx' = libIdx + 1
         /\ user_recommendations' = ur
         /\ pc' = "library"
         /\ UNCHANGED <<acctIdx, all_user_recommendations>>
    ELSE /\ all_user_recommendations' =
                IF ur # <<>>
                THEN DictSet(all_user_recommendations, all_accounts[acctIdx], ur)
                ELSE all_user_recommendations
         /\ user_recommendations' = <<>>
         /\ acctIdx' = acctIdx + 1
         /\ libIdx' = 1
         /\ pc' = IF acctIdx < Len(all_accounts) THEN "library" ELSE "publish"

Unit(titles, outcome, requested) ==
    [account |-> all_accounts[acctIdx], library |-> library_names[libIdx],
     titles |-> titles, outcome |-> outcome, requested |-> requested]

\* library = plex.library.section(library_name) raises: outer except, return
SectionRaises ==
    /\ pc = "library"
    /\ pc' = "returned"
    /\ exitCause' = "enumeration"
    /\ units' = Append(units, Unit({}, "section_error", FALSE))
    /\ UNCHANGED <<passNo, config, acctIdx, libIdx, user_recommendations,
                   all_user_recommendations, ai_result, publishing, server, faults,
                   cc, watchlist_calls, republish>>

\* the history except handler returning like the outer handler does
HistoryAborts(ur) ==
    /\ pc' = "returned"
    /\ UNCHANGED <<acctIdx, libIdx, user_recommendations, all_user_recommendations>>

\* the continue of the history except handler: go on with the next library
HistoryContinue(ur) == EndIteration(ur)

\* plex.history(...) raises: inner except logs and continues
HistoryRaises ==
    /\ pc = "library"
    /\ units' = Append(units, Unit({}, "history_error", FALSE))
    /\ HistoryContinue(user_recommendations)
    /\ UNCHANGED <<passNo, exitCause, config, ai_result, publishing, server, faults,
                   cc, watchlist_calls, republish>>

\* history fetched and its title set is empty: skip the pair
HistoryEmpty ==
    /\ pc = "library"
    /\ \E h \in Histories :
        /\ NoHistory(HistoryTitles(h))
        /\ units' = Append(units, Unit(HistoryTitles(h), "no_history", FALSE))
    /\ EndIteration(user_recommendations)
    /\ UNCHANGED <<passNo, exitCause, config, ai_result, publishing, server, faults,
                   cc, watchlist_calls, republish>>

\* history fetched, the completion request or its parsing raises: logged
CompletionFails ==
    /\ pc = "library"
    /\ \E h \in Histories :
        /\ ~NoHistory(HistoryTitles(h))
        /\ units' = Append(units, Unit(HistoryTitles(h), "llm_error", TRUE))
    /\ EndIteration(user_recommendations)
    /\ UNCHANGED <<passNo, exitCause, config, ai_result, publishing, server, faults,
                   cc, watchlist_calls, republish>>

\* history fetched, completion returned and parsed, the pair is recorded
CompletionParsed ==
    /\ pc = "library"
    /\ \E h \in Histories, r \in AiResponses :
        /\ ~NoHistory(HistoryTitles(h))
        /\ units' = Append(units, Unit(HistoryTitles(h), "recorded", TRUE))
        /\ ai_result' = r
        /\ EndIteration(DictSet(user_recommendations, library_names[libIdx],
                                [recommendations |-> ParseRecommendations(r),
                                 description |-> ParseDescription(r)]))
    /\ UNCHANGED <<passNo, exitCause, config, publishing, server, faults,
                   cc, watchlist_calls, republish>>

\* ------------------------------------------------------------------------
\* run(): publishing phase
\* ------------------------------------------------------------------------
MoreUnits == pubA <= Len(all_user_recommendations)
UnitAccount == all_user_recommendations[pubA].key
UnitLibrary == all_user_recommendations[pubA].val[pubL].key
UnitRecommendations == all_user_recommendations[pubA].val[pubL].val.recommendations
UnitDescription == all_user_recommendations[pubA].val[pubL].val.description

\* the next (library_name, ...) of the inner loop, or the next account
NextUnit ==
    /\ IF pubL < Len(all_user_recommendations[pubA].val)
       THEN pubL' = pubL + 1 /\ pubA' = pubA
       ELSE pubL' = 1 /\ pubA' = pubA + 1
    /\ pc' = "publish"

\* an exception leaves run(): nothing encloses the publishing phase
Raise(site) ==
    /\ pc' = "crashed"
    /\ exitCause' = site
    /\ faults' = faults + 1

\* both loops are exhausted: "Waiting on next call..."
PublishDone ==
    /\ pc = "publish"
    /\ ~MoreUnits
    /\ pc' = "sleep"
    /\ units' = <<>>
    /\ UNCHANGED <<passNo, exitCause, config, enumeration, publishing, server, faults,
                   cc, watchlist_calls, republish>>

\* if recommendations: is false, nothing is published for the unit
PublishSkipEmpty ==
    /\ pc = "publish"
    /\ MoreUnits
    /\ UnitRecommendations = <<>>
    /\ NextUnit
    /\ units' = <<>>
    /\ UNCHANGED <<passNo, exitCause, config, enumeration, server, faults,
                   cc, watchlist_calls, republish>>

\* library = plex.library.section(library_name); the title is computed
PublishSection ==
    /\ pc = "publish"
    /\ MoreUnits
    /\ UnitRecommendations # <<>>
    /\ pc' = "collection"
    /\ units' = <<>>
    /\ UNCHANGED <<passNo, exitCause, config, enumeration, publishing, server, faults,
                   cc, watchlist_calls, republish>>

\* plex.library.section(library_name) raises in the publishing phase
PublishSectionRaises ==
    /\ pc = "publish"
    /\ MoreUnits
    /\ UnitRecommendations # <<>>
    /\ faults < MaxFaults
    /\ Raise("section")
    /\ units' = <<>>
    /\ UNCHANGED <<passNo, config, enumeration, publishing, server,
                   cc, watchlist_calls, republish>>

\* if userInputs.create_collections: is false
SkipCollection ==
    /\ pc = "collection"
    /\ ~create_collections
    /\ pc' = "watchlist"
    /\ UNCHANGED <<passNo, exitCause, config, enumeration, publishing, server, faults,
                   cc, watchlist_calls, republish, units>>

Call(item_list, found, calls, raised) ==
    [called |-> TRUE, account |-> UnitAccount, library |-> UnitLibrary,
     item_list |-> item_list, description |-> UnitDescription, found |-> found,
     calls |-> calls, raised |-> raised, before |-> colls]

\* create_collection: a plex.search in the matching loop raises
CreateCollectionSearchRaises ==
    /\ pc = "collection"
    /\ create_collections
    /\ faults < MaxFaults
    /\ Raise("search")
    /\ cc' = Call(<<>>, FALSE, <<>>, "search")
    /\ UNCHANGED <<passNo, config, enumeration, publishing, server,
                   watchlist_calls, republish, units>>

\* create_collection: not enough items were found
CreateCollectionNotEnough ==
    /\ pc = "collection"
    /\ create_collections
    /\ LET item_list == ItemList(UnitRecommendations, MediaType(UnitLibrary)) IN
        /\ ~EnoughItems(item_list)
        /\ cc' = Call(item_list, FALSE, <<>>, "none")
    /\ pc' = "watchlist"
    /\ UNCHANGED <<passNo, exitCause, config, enumeration, publishing, server, faults,
                   watchlist_calls, republish, units>>

\* the server calls made by the try block when its step failAt raises
UpdateCalls(failAt) ==
    SelectSeq(<<"removeItems", "addItems", "editSummary">>,
              LAMBDA step : StepCalled(step, failAt))

\* the server calls made by the except block when its step failC raises
CreateCalls(failC) ==
    IF failC = "createCollection" THEN <<"createCollection">>
    ELSE <<"createCollection", "editSummary">>

\* create_collection: enough items; try the update, on any exception create
CreateCollectionPublish ==
    /\ pc = "collection"
    /\ create_collections
    /\ LET l == UnitLibrary
           title == CollectionTitle(UnitAccount, l)
           item_list == ItemList(UnitRecommendations, MediaType(l))
           i == CollectionLookup(colls[l], title)
       IN
        /\ EnoughItems(item_list)
        /\ \E failAt \in {"none", "collection", "removeItems", "addItems", "editSummary"},
              failC \in {"none", "createCollection", "editSummary"} :
            LET found == i # 0 /\ failAt # "collection"
                nfaults == (IF i # 0 /\ failAt # "none" THEN 1 ELSE 0)
                           + (IF failC # "none" THEN 1 ELSE 0)
                cs1 == IF i # 0 THEN UpdateCollection(colls[l], i, item_list,
                                                      UnitDescription, failAt)
                       ELSE colls[l]
                cs2 == IF failAt = "none" THEN cs1
                       ELSE CreateCollection(cs1, title, item_list, UnitDescription, failC)
            IN
            /\ i = 0 => failAt = "collection"
            /\ failAt = "none" => failC = "none"
            /\ faults + nfaults <= MaxFaults
            /\ faults' = faults + nfaults
            /\ colls' = [colls EXCEPT ![l] = cs2]
            /\ cc' = Call(item_list, found,
                          (IF found THEN UpdateCalls(failAt) ELSE <<>>)
                          \o (IF failAt = "none" THEN <<>> ELSE CreateCalls(failC)),
                          IF failC # "none" THEN failC
                          ELSE IF i # 0 THEN failAt ELSE "none")
            /\ IF failC = "none"
               THEN pc' = "watchlist" /\ exitCause' = exitCause
               ELSE pc' = "crashed" /\ exitCause' = failC
    /\ UNCHANGED <<passNo, config, enumeration, publishing, watchlist,
                   watchlist_calls, republish, units>>

\* the guard of the watchlist call is false
SkipWatchlist ==
    /\ pc = "watchlist"
    /\ ~ShouldAddToWatchlist(add_to_watchlist, UnitAccount)
    /\ NextUnit
    /\ UNCHANGED <<passNo, exitCause, config, enumeration, server, faults,
                   cc, watchlist_calls, republish, units>>

\* keys added by the title loop of add_to_watchlist when the titles whose
\* index is in failed raise in account.search or item.addToWatchlist
Added(recommendations, mediatype, failed) ==
    {GlobalSearch(Strip(recommendations[i]), mediatype)[1].key :
        i \in {j \in DOMAIN recommendations :
                  /\ j \notin failed
                  /\ GlobalSearch(Strip(recommendations[j]), mediatype) # <<>>}}

\* add_to_watchlist: every exception of the title loop is caught per title
AddToWatchlist ==
    /\ pc = "watchlist"
    /\ ShouldAddToWatchlist(add_to_watchlist, UnitAccount)
    /\ \E failed \in SUBSET DOMAIN UnitRecommendations :
        /\ faults + Cardinality(failed) <= MaxFaults
        /\ faults' = faults + Cardinality(failed)
        /\ watchlist' = watchlist \cup
                Added(UnitRecommendations, MediaType(UnitLibrary), failed)
    /\ watchlist_calls' = watchlist_calls \cup {UnitAccount}
    /\ NextUnit
    /\ UNCHANGED <<passNo, exitCause, config, enumeration, colls, cc, republish, units>>

\* add_to_watchlist: plex.myPlexAccount() raises outside the try
AddToWatchlistAccountRaises ==
    /\ pc = "watchlist"
    /\ ShouldAddToWatchlist(add_to_watchlist, UnitAccount)
    /\ faults < MaxFaults
    /\ Raise("myPlexAccount")
    /\ watchlist_calls' = watchlist_calls \cup {UnitAccount}
    /\ UNCHANGED <<passNo, config, enumeration, publishing, server, cc, republish, units>>

\* time.sleep(userInputs.wait_seconds), then the next pass
Sleep ==
    /\ pc = "sleep"
    /\ pc' = "start"
    /\ passNo' = passNo + 1
    /\ cc' = NoCall
    /\ UNCHANGED <<units, exitCause, config, acctIdx, libIdx, user_recommendations,
                   all_user_recommendations, ai_result, publishing, server, faults,
                   watchlist_calls, republish>>

Enumerate ==
    \/ SystemAccounts \/ SystemAccountsRaises \/ SectionRaises \/ HistoryRaises
    \/ HistoryEmpty \/ CompletionFails \/ CompletionParsed

Publish ==
    \/ PublishDone \/ PublishSkipEmpty \/ PublishSection \/ PublishSectionRaises
    \/ SkipCollection \/ CreateCollectionSearchRaises \/ CreateCollectionNotEnough
    \/ CreateCollectionPublish \/ SkipWatchlist \/ AddToWatchlist
    \/ AddToWatchlistAccountRaises

Next == Connect \/ ConnectFails \/ Enumerate \/ Publish \/ Sleep

Spec == Init /\ [][Next]_vars

\* ------------------------------------------------------------------------
\* The parsing of the completion text on its own, for every short raw text
\* ------------------------------------------------------------------------
RawTexts == UNION {[1..n -> Alphabet] : n \in 0..MaxLen}

InitParse ==
    /\ pc = "parse"
    /\ ai_result \in RawTexts
    /\ passNo = 1
    /\ exitCause = "none"
    /\ create_collections = TRUE
    /\ add_to_watchlist = TRUE
    /\ acctIdx = 2
    /\ libIdx = 1
    /\ user_recommendations = <<>>
    /\ all_user_recommendations = <<>>
    /\ pubA = 1
    /\ pubL = 1
    /\ colls = InitialCollections
    /\ watchlist = {}
    /\ faults = 0
    /\ units = <<>>
    /\ cc = NoCall
    /\ watchlist_calls = {}
    /\ runNo = 1
    /\ firstRun = InitialCollections

\* ai_result_split = ...; recommendations = ...; description = ...;
\* user_recommendations[library_name] = (recommendations, description)
ParseResponse ==
    /\ pc = "parse"
    /\ user_recommendations' =
            DictSet(user_recommendations, library_names[libIdx],
                    [recommendations |-> ParseRecommendations(ai_result),
                     description |-> ParseDescription(ai_result)])
    /\ pc' = "parsed"
    /\ UNCHANGED <<passNo, exitCause, config, acctIdx, libIdx, all_user_recommendations,
                   ai_result, units, publishing, server, faults, cc, watchlist_calls,
                   republish>>

NextParse == ParseResponse

SpecParse == InitParse /\ [][NextParse]_vars

\* ------------------------------------------------------------------------
\* The publishing phase run repeatedly on the same all_user_recommendations
\* ------------------------------------------------------------------------
Absent == <<"absent">>

\* the dict of one account when the completion of library k.. was choice[a][k]
RECURSIVE UserDict(_, _)
UserDict(choice, k) ==
    IF k > Len(library_names) THEN <<>>
    ELSE (IF choice[k] = Absent THEN <<>>
          ELSE <<[key |-> library_names[k],
                  val |-> [recommendations |-> ParseRecommendations(choice[k]),
                           description |-> ParseDescription(choice[k])]]>>)
         \o UserDict(choice, k + 1)

\* all_user_recommendations as the enumeration phase builds it
RECURSIVE AllDict(_, _)
AllDict(choice, a) ==
    IF a > Len(all_accounts) THEN <<>>
    ELSE (IF UserDict(choice[a], 1) = <<>> THEN <<>>
          ELSE <<[key |-> all_accounts[a], val |-> UserDict(choice[a], 1)]>>)
         \o AllDict(choice, a + 1)

InitRepublish ==
    /\ pc = "publish"
    /\ \E choice \in [2..Len(all_accounts) ->
                        [1..Len(library_names) -> AiResponses \cup {Absent}]] :
            all_user_recommendations = AllDict(choice, 2)
    /\ passNo = 1
    /\ exitCause = "none"
    /\ create_collections \in BOOLEAN
    /\ add_to_watchlist \in BOOLEAN
    /\ acctIdx = Len(all_accounts) + 1
    /\ libIdx = 1
    /\ user_recommendations = <<>>
    /\ ai_result = <<>>
    /\ pubA = 1
    /\ pubL = 1
    /\ colls = InitialCollections
    /\ watchlist = {}
    /\ faults = 0
    /\ units = <<>>
    /\ cc = NoCall
    /\ watchlist_calls = {}
    /\ runNo = 1
    /\ firstRun = InitialCollections

\* the publishing loops are entered again with the same dict
Republish ==
    /\ pc = "sleep"
    /\ runNo < MaxRuns
    /\ runNo' = runNo + 1
    /\ firstRun' = IF runNo = 1 THEN colls ELSE firstRun
    /\ pubA' = 1
    /\ pubL' = 1
    /\ pc' = "publish"
    /\ UNCHANGED <<passNo, exitCause, config, enumeration, server, faults, cc,
                   watchlist_calls, units>>

NextRepublish == Publish \/ Republish

SpecRepublish == InitRepublish /\ [][NextRepublish]_vars

\* ------------------------------------------------------------------------
\* Properties
\* ------------------------------------------------------------------------
\* the pair has an entry in the dict being built or in the dict of all accounts
HasRecommendations(account, library) ==
    \/ \E i \in DOMAIN all_user_recommendations :
          /\ all_user_recommendations[i].key = account
          /\ DictHas(all_user_recommendations[i].val, library)
    \/ /\ acctIdx <= Len(all_accounts)
       /\ all_accounts[acctIdx] = account
       /\ DictHas(user_recommendations, library)

AccountNo(account) == CHOOSE a \in DOMAIN all_accounts : all_accounts[a] = account
LibraryNo(library) == CHOOSE l \in DOMAIN library_names : library_names[l] = library

\* position of a pair in the order of the two loops of the enumeration
PairNo(u) == (AccountNo(u.account) - 2) * Len(library_names) + LibraryNo(u.library)
LastPairNo == (Len(all_accounts) - 1) * Len(library_names)

\* the collection of the last create_collection call, before and after it
CallTitle == CollectionTitle(cc.account, cc.library)
CallBefore == cc.before[cc.library]
CallAfter == colls[cc.library]
Existed == CollectionLookup(CallBefore, CallTitle) # 0
ExistedWithItems ==
    /\ Existed
    /\ CallBefore[CollectionLookup(CallBefore, CallTitle)].items # {}

\* C1: add_to_watchlist is invoked, and the watchlist changed, only for the
\* account whose name is the target username, whatever the toggle is.
C1_WatchlistOnlyForTarget ==
    /\ \A a \in watchlist_calls : a = target_username
    /\ watchlist # {} => watchlist_calls = {target_username}

C1_Witness ==
    /\ pc = "sleep"
    /\ add_to_watchlist
    /\ watchlist # {}
    /\ \E i \in DOMAIN all_user_recommendations :
          /\ all_user_recommendations[i].key = "bob"
          /\ \E k \in DOMAIN all_user_recommendations[i].val :
                all_user_recommendations[i].val[k].val.recommendations # <<>>

\* C2: once the connection of a pass succeeded run() never ends: the only
\* way run() returns or raises is the connection failure at the start of a pass.
C2_OnlyConnectionFailureEndsRun ==
    pc \in {"returned", "crashed"} => exitCause = "connect"

\* C3: a catalog search that raises or a collection create call that raises
\* inside create_collection never ends the pass: run() goes on with the other
\* units and reaches the sleep.
C3_PublishFailureContained ==
    ~(pc = "crashed" /\ exitCause \in {"search", "createCollection", "editSummary"})

\* C4: when create_collection found more items than the threshold, the
\* collection of that name existed (whatever items it held) and the server
\* calls returned, the collection holds exactly the found items and the new description, and
\* no collection was added.
C4_UpdateReplacesItems ==
    (cc.called /\ EnoughItems(cc.item_list) /\ cc.raised = "none" /\ Existed)
    => LET i == CollectionLookup(CallAfter, CallTitle) IN
        /\ i # 0
        /\ CallAfter[i].items = Range(cc.item_list)
        /\ CallAfter[i].summary = cc.description
        /\ Len(CallAfter) = Len(CallBefore)

C4_Witness ==
    /\ cc.called
    /\ EnoughItems(cc.item_list)
    /\ cc.raised = "none"
    /\ ExistedWithItems
    /\ ~(CallBefore[CollectionLookup(CallBefore, CallTitle)].items
            \subseteq Range(cc.item_list))
    /\ pc = "watchlist"

\* C5: when the number of items found by create_collection is at most the
\* threshold, create_collection makes no removeItems, addItems, editSummary
\* or createCollection call and every collection is as it was before.
C5_NotEnoughNoMutation ==
    (cc.called /\ Len(cc.item_list) <= minimum_amount)
    => (cc.calls = <<>> /\ colls = cc.before)

C5_Witness ==
    /\ cc.called
    /\ cc.raised = "none"
    /\ Len(cc.item_list) = minimum_amount
    /\ CollectionLookup(CallAfter, CallTitle) # 0
    /\ pc = "watchlist"

\* C6: a pair whose history fetch raised records no recommendations, and the
\* loops go on with the pair that follows it: either that pair has been
\* handled next, or it is the pair the loops now stand at, or the failing
\* pair was the last one and run() is at the publishing loops.
C6_HistoryErrorContinues ==
    \A i \in DOMAIN units :
        units[i].outcome = "history_error" =>
            /\ ~HasRecommendations(units[i].account, units[i].library)
            /\ IF i < Len(units) THEN PairNo(units[i + 1]) = PairNo(units[i]) + 1
               ELSE IF PairNo(units[i]) = LastPairNo
                    THEN pc = "publish" /\ pubA = 1 /\ pubL = 1
                    ELSE /\ pc = "library"
                         /\ PairNo([account |-> all_accounts[acctIdx],
                                    library |-> library_names[libIdx]])
                                = PairNo(units[i]) + 1

C6_Witness ==
    /\ pc = "publish"
    /\ \E i \in DOMAIN units :
          /\ units[i].outcome = "history_error"
          /\ LibraryNo(units[i].library) = 1
          /\ i + 2 <= Len(units)
          /\ units[i + 1].outcome = "recorded"
          /\ units[i + 2].outcome = "recorded"
          /\ units[i + 2].account # units[i].account

\* the text before and after the first "+++" of a raw completion text
HasSeparator(raw) == Find(raw, Separator, 1) # 0
BeforeFirst(raw) ==
    IF HasSeparator(raw) THEN SubSeq(raw, 1, Find(raw, Separator, 1) - 1) ELSE raw
AfterFirst(raw) == SubSeq(raw, Find(raw, Separator, 1) + Len(Separator), Len(raw))

\* C7: the recommendations are the trimmed non-empty comma-separated pieces
\* of the text before the first "+++", and the description is the trimmed
\* text after that first "+++", or empty when there is no "+++".
C7_ParseSplitsOnFirstSeparator ==
    pc = "parsed" =>
        /\ user_recommendations[1].val.recommendations
              = StripNonBlank(Split(BeforeFirst(ai_result), Comma))
        /\ user_recommendations[1].val.description
              = IF HasSeparator(ai_result) THEN Strip(AfterFirst(ai_result)) ELSE <<>>

\* C8: when the publishing phase has run again on the same recommendations
\* and no server call raised, the collections are the ones the first run left.
C8_RepublishIdempotent ==
    (pc = "sleep" /\ runNo >= 2 /\ faults = 0) => colls = firstRun

C8_Witness ==
    /\ pc = "sleep"
    /\ runNo >= 2
    /\ faults = 0
    /\ create_collections
    /\ firstRun # InitialCollections
    /\ Len(colls["Shows"]) >= 1
    /\ colls["Movies"][1].items # InitialCollections["Movies"][1].items

\* C9: createCollection is called only when the lookup by name found no
\* collection; when the lookup found one, createCollection is not called
\* whatever removeItems, addItems and editSummary do.
C9_CreateOnlyOnLookupMiss ==
    (cc.called /\ cc.found) => \A k \in DOMAIN cc.calls : cc.calls[k] # "createCollection"

\* C10: a pair whose history title set is empty gets no completion request
\* and no entry in the recommendations of its account, up to the start of the
\* publishing loops; and create_collection is only called for a pair that has
\* an entry.
C10_NoHistorySkipped ==
    /\ \A i \in DOMAIN units :
          units[i].titles = {} =>
              /\ ~units[i].requested
              /\ ~HasRecommendations(units[i].account, units[i].library)
    /\ cc.called => HasRecommendations(cc.account, cc.library)

C10_Witness ==
    /\ pc = "publish"
    /\ all_user_recommendations # <<>>
    /\ \E i \in DOMAIN units :
          /\ units[i].outcome = "no_history"
          /\ i < Len(units)
          /\ units[i + 1].outcome = "recorded"

====
